---- MODULE Spec2Model ----
(***************************************************************************)
(* Model of zenoh-plugin-mqtt/src/mqtt_session_state.rs: the per-client    *)
(* MQTT session state (subscription registry behind an RwLock), the two    *)
(* routing entry points, the subscription callback and the publisher task  *)
(* that drains the capacity-1 channel into the MQTT sink.                  *)
(***************************************************************************)
EXTENDS Integers, Sequences, FiniteSets, TLC

\* ------------------------------------------------------------------ bounds
\* payloads (overlay samples) created in one behaviour
MaxPayloads == 3
\* callbacks of remote samples that may sit blocked in send_blocking at once
MaxRemoteBlocked == 1
\* declare_subscriber invocations per (session, topic) after which the
\* overlay no longer rejects a declaration
MaxDeclare == 2

\* --------------------------------------------------------- program constants
\* async_channel::bounded(1)
ChannelCapacity == 1

\* ------------------------------------------------------------------ domains
Sessions == {"A", "B"}
Workers == {"w1", "w2"}
Callers == {1, 2}
NoCaller == 0

TopicHome == <<"home", "temp">>
TopicSecret == <<"secret", "x">>
TopicBad == <<"home", "">>
Topics == {TopicHome, TopicSecret, TopicBad}

\* Config { scope, allow/deny }: shared, immutable
Configs ==
  { [scope |-> <<>>, denied |-> {TopicSecret}],
    [scope |-> <<"site">>, denied |-> {}] }

VARIABLES
  config,      \* Arc<Config> shared by every session
  status,      \* per session: "absent" | "alive" | "dropped"
  worker,      \* per session: the runtime thread its handlers and its publisher task run on
  subs,        \* per session: RwLock<HashMap<String, Subscriber>>, topic -> subscriber id (0: none)
  lock,        \* per session: holder of subs.write(), NoCaller when free
  zsubs,       \* subscribers declared on the zenoh session and not undeclared
  declCalls,   \* per session and topic: declare_subscriber invocations so far
  caller,      \* per handler invocation: where it is in map_mqtt_subscription / route_mqtt_to_zenoh
  chan,        \* per session: content of the bounded(1) channel
  task,        \* per session: the task spawned by spawn_mqtt_publisher
  sinkOpen,    \* per session: MqttSink::is_open()
  sinkCloses,  \* per session: sink.close() calls made by the publisher task
  published,   \* per session: payloads passed to sink.publish_at_most_once, in call order
  enqOrder,    \* per session: payloads in the order send_blocking completed
  blocked,     \* callbacks blocked inside tx.send_blocking
  dropped,     \* payloads whose callback returned Err (logged and dropped), with the session
  lastPut,     \* the latest zsession.put made by route_mqtt_to_zenoh (topic, destination, result)
  nextPayload  \* next fresh payload id

vars == << config, status, worker, subs, lock, zsubs, declCalls, caller, chan, task,
           sinkOpen, sinkCloses, published, enqOrder, blocked, dropped, lastPut, nextPayload >>

\* ------------------------------------------------------------ collaborators
\* crate::mqtt_helpers::is_allowed(topic, config)
is_allowed(topic, cfg) == topic \notin cfg.denied

\* a key expression or a topic with an empty chunk is rejected
ValidChunks(ke) == Len(ke) > 0 /\ \A i \in 1..Len(ke) : ke[i] # ""

HasWildcard(ke) == \E i \in 1..Len(ke) : ke[i] \in {"*", "**"}

IsPrefixOf(p, q) == Len(p) <= Len(q) /\ SubSeq(q, 1, Len(p)) = p

\* crate::mqtt_helpers::mqtt_topic_to_ke(topic, scope): scope / topic
mqtt_topic_to_ke(topic, scope) ==
  IF ValidChunks(topic)
    THEN [ok |-> TRUE, ke |-> scope \o topic]
    ELSE [ok |-> FALSE, ke |-> <<>>]

\* crate::mqtt_helpers::ke_to_mqtt_topic_publish(ke, scope): strips the scope;
\* a key expression with wildcards, or outside the scope, is no MQTT topic
ke_to_mqtt_topic_publish(ke, scope) ==
  IF ~HasWildcard(ke) /\ IsPrefixOf(scope, ke) /\ Len(ke) > Len(scope)
    THEN [ok |-> TRUE, topic |-> SubSeq(ke, Len(scope) + 1, Len(ke))]
    ELSE [ok |-> FALSE, topic |-> <<>>]

\* route_mqtt_to_zenoh: ke = scope / topic.try_into()?  or  topic.try_into()?
RouteKeyExpr(topic, scope) ==
  IF ValidChunks(topic)
    THEN [ok |-> TRUE, ke |-> IF scope # <<>> THEN scope \o topic ELSE topic]
    ELSE [ok |-> FALSE, ke |-> <<>>]

\* zenoh key expression intersection, chunk by chunk ("*" matches one chunk)
KeyIntersects(k1, k2) ==
  /\ Len(k1) = Len(k2)
  /\ \A i \in 1..Len(k1) : k1[i] = k2[i] \/ k1[i] = "*" \/ k2[i] = "*"

\* key expressions participants outside the bridge publish on
RemoteKeys == { config.scope \o TopicHome, config.scope \o TopicSecret,
                config.scope \o <<"home", "*">> }

\* ------------------------------------------------------------------ helpers
NoPut == [topic |-> <<>>, dest |-> "Any", ok |-> FALSE]

IdleCaller == [pc |-> "idle", op |-> "none", sess |-> "A", topic |-> <<>>,
               loc |-> "Any", payload |-> 0, todo |-> {}, ret |-> "none", puts |-> 0]

TaskAlive(s) == task[s].pc \in {"Running", "Received"}
TaskClosed(s) == task[s].pc \in {"ClosedSinkFailed", "ClosedSinkClosed", "ClosedChannel"}

\* callbacks of session s's subscriptions that are running or already picked
\* for invocation: each holds a clone of tx
InFlightCallbacks(s) ==
  { b.msg.payload : b \in { x \in blocked : x.sess = s } }
  \cup { caller[c].payload : c \in { x \in Callers : \E z \in caller[x].todo : z.sess = s } }

\* Sender clones alive: self.tx, and the clone inside every callback closure
SenderAlive(s) == status[s] = "alive" \/ InFlightCallbacks(s) # {}

\* async_channel: closed once every Sender or every Receiver is dropped
ChannelClosed(s) == ~SenderAlive(s) \/ ~TaskAlive(s)

\* a runtime thread is busy while synchronous code runs on it: a handler inside
\* zsession.put(..).res() (with the local callbacks it invokes), or the publisher
\* task between rx.recv() returning and the next rx.recv()
WorkerBusy(w) ==
  \/ \E c \in Callers : caller[c].pc = "putting" /\ worker[caller[c].sess] = w
  \/ \E s \in Sessions : status[s] # "absent" /\ worker[s] = w /\ task[s].pc = "Received"

\* ---------------------------------------------------------------------- Init
Init ==
  /\ config \in Configs
  /\ status = [s \in Sessions |-> IF s = "A" THEN "alive" ELSE "absent"]
  /\ worker = [s \in Sessions |-> "w1"]
  /\ subs = [s \in Sessions |-> [t \in Topics |-> 0]]
  /\ lock = [s \in Sessions |-> NoCaller]
  /\ zsubs = {}
  /\ declCalls = [s \in Sessions |-> [t \in Topics |-> 0]]
  /\ caller = [c \in Callers |-> IdleCaller]
  /\ chan = [s \in Sessions |-> <<>>]
  /\ task = [s \in Sessions |-> [pc |-> "Running", msg |-> <<>>]]
  /\ sinkOpen = [s \in Sessions |-> TRUE]
  /\ sinkCloses = [s \in Sessions |-> 0]
  /\ published = [s \in Sessions |-> <<>>]
  /\ enqOrder = [s \in Sessions |-> <<>>]
  /\ blocked = {}
  /\ dropped = {}
  /\ lastPut = NoPut
  /\ nextPayload = 1

\* ---------------------------------------------------------- channel, policy
\* Sender::try_send on the bounded(1) queue: the queue afterwards (unchanged when full)
ChanPushUnbounded(q, m) == Append(q, m)
ChanPushLifo(q, m) == <<m>> \o q
ChanPush(q, m) == IF Len(q) < ChannelCapacity THEN Append(q, m) ELSE q

HasRoom(q, m) == ChanPush(q, m) # q

\* map_mqtt_subscription: sub_origin
sub_origin_any(topic) == "Any"
sub_origin(topic) == IF is_allowed(topic, config) THEN "Any" ELSE "SessionLocal"

\* route_mqtt_to_zenoh: destination
destination_any(topic) == "Any"
destination(topic) == IF is_allowed(topic, config) THEN "Any" ELSE "SessionLocal"

\* self.subs.write().await is granted when nobody holds the lock
write_available_always(s) == TRUE
write_available(s) == lock[s] = NoCaller

\* subs.contains_key(topic)
contains_key_never(s, topic) == FALSE
contains_key(s, topic) == subs[s][topic] # 0

\* the handler returns r; the record keeps what was called until the next call
Return(c, r) == [caller EXCEPT ![c].pc = "idle", ![c].ret = r, ![c].payload = 0, ![c].todo = {}]

\* ------------------------------------------------------ MqttSessionState::new
\* a second client connects: bounded(1) channel, publisher task spawned on the
\* calling runtime thread, empty registry
MqttSessionState_new(s, w) ==
  /\ status[s] = "absent"
  /\ ~WorkerBusy(w)
  /\ status' = [status EXCEPT ![s] = "alive"]
  /\ worker' = [worker EXCEPT ![s] = w]
  /\ UNCHANGED << config, subs, lock, zsubs, declCalls, caller, chan, task, sinkOpen,
                  sinkCloses, published, enqOrder, blocked, dropped, lastPut, nextPayload >>

\* ------------------------------------------------------ map_mqtt_subscription
\* lines 55-68: choose sub_origin, then self.subs.write().await
MapCall(c, s, topic) ==
  /\ caller[c].pc = "idle"
  /\ status[s] = "alive"
  /\ ~WorkerBusy(worker[s])
  /\ caller' = [caller EXCEPT ![c] =
                  [pc |-> "wait_lock", op |-> "map", sess |-> s, topic |-> topic,
                   loc |-> sub_origin(topic), payload |-> 0, todo |-> {}, ret |-> "none",
                   puts |-> 0]]
  /\ UNCHANGED << config, status, worker, subs, lock, zsubs, declCalls, chan, task, sinkOpen,
                  sinkCloses, published, enqOrder, blocked, dropped, lastPut, nextPayload >>

MapLockGranted(c) ==
  /\ caller[c].pc = "wait_lock"
  /\ ~WorkerBusy(worker[caller[c].sess])
  /\ write_available(caller[c].sess)

\* lines 87-94: already subscribed => ignore, Ok(())
MapAlreadySubscribed(c) ==
  /\ MapLockGranted(c)
  /\ contains_key(caller[c].sess, caller[c].topic)
  /\ caller' = Return(c, "Ok")
  /\ UNCHANGED << config, status, worker, subs, lock, zsubs, declCalls, chan, task, sinkOpen,
                  sinkCloses, published, enqOrder, blocked, dropped, lastPut, nextPayload >>

\* line 70: mqtt_topic_to_ke(..)? fails; the write guard is dropped on return
MapTranslationError(c) ==
  /\ MapLockGranted(c)
  /\ ~contains_key(caller[c].sess, caller[c].topic)
  /\ ~mqtt_topic_to_ke(caller[c].topic, config.scope).ok
  /\ caller' = Return(c, "TranslationError")
  /\ UNCHANGED << config, status, worker, subs, lock, zsubs, declCalls, chan, task, sinkOpen,
                  sinkCloses, published, enqOrder, blocked, dropped, lastPut, nextPayload >>

\* lines 71-84: declare_subscriber(ke)...res().await, holding the write guard
MapDeclare(c) ==
  LET s == caller[c].sess
      t == caller[c].topic
  IN /\ MapLockGranted(c)
     /\ ~contains_key(s, t)
     /\ mqtt_topic_to_ke(t, config.scope).ok
     /\ lock' = [lock EXCEPT ![s] = c]
     /\ declCalls' = [declCalls EXCEPT ![s][t] = @ + 1]
     /\ caller' = [caller EXCEPT ![c].pc = "declaring"]
     /\ UNCHANGED << config, status, worker, subs, zsubs, chan, task, sinkOpen,
                     sinkCloses, published, enqOrder, blocked, dropped, lastPut, nextPayload >>

\* lines 84-86: the subscriber is declared; subs.insert(topic, sub) drops (undeclares)
\* a subscriber it replaces; Ok(()), guard dropped
MapDeclareOk(c) ==
  LET s == caller[c].sess
      t == caller[c].topic
      id == declCalls[s][t]
      sub == [sess |-> s, topic |-> t, ke |-> mqtt_topic_to_ke(t, config.scope).ke,
              origin |-> caller[c].loc, id |-> id]
      replaced == { z \in zsubs : z.sess = s /\ z.topic = t /\ z.id = subs[s][t] }
  IN /\ caller[c].pc = "declaring"
     /\ ~WorkerBusy(worker[s])
     /\ zsubs' = (zsubs \ replaced) \cup {sub}
     /\ subs' = [subs EXCEPT ![s][t] = id]
     /\ lock' = [lock EXCEPT ![s] = NoCaller]
     /\ caller' = Return(c, "Ok")
     /\ UNCHANGED << config, status, worker, declCalls, chan, task, sinkOpen,
                     sinkCloses, published, enqOrder, blocked, dropped, lastPut, nextPayload >>

MapDeclareErrKeepsEntry(c) ==
  LET s == caller[c].sess
      t == caller[c].topic
  IN /\ caller[c].pc = "declaring"
     /\ ~WorkerBusy(worker[s])
     /\ declCalls[s][t] < MaxDeclare
     /\ subs' = [subs EXCEPT ![s][t] = declCalls[s][t]]
     /\ lock' = [lock EXCEPT ![s] = NoCaller]
     /\ caller' = Return(c, "OverlayError")
     /\ UNCHANGED << config, status, worker, zsubs, declCalls, chan, task, sinkOpen,
                     sinkCloses, published, enqOrder, blocked, dropped, lastPut, nextPayload >>

\* line 84: .res().await? fails; nothing inserted, guard dropped
MapDeclareErr(c) ==
  LET s == caller[c].sess
      t == caller[c].topic
  IN /\ caller[c].pc = "declaring"
     /\ ~WorkerBusy(worker[s])
     /\ declCalls[s][t] < MaxDeclare
     /\ lock' = [lock EXCEPT ![s] = NoCaller]
     /\ caller' = Return(c, "OverlayError")
     /\ UNCHANGED << config, status, worker, subs, zsubs, declCalls, chan, task, sinkOpen,
                     sinkCloses, published, enqOrder, blocked, dropped, lastPut, nextPayload >>

\* -------------------------------------------------------- route_zenoh_to_mqtt
\* the callback of a subscriber of session s, run for a sample on key expression ke
\* carrying payload p, on thread thr (a handler's runtime thread inside put, or a
\* thread of the zenoh runtime: NoCaller)
CallbackMsg(ke, p) == [topic |-> ke_to_mqtt_topic_publish(ke, config.scope).topic, payload |-> p]

CallbackErrUnsubscribes(s, ke, p) ==
  /\ ~ke_to_mqtt_topic_publish(ke, config.scope).ok \/ ~TaskAlive(s)
  /\ dropped' = dropped \cup {[sess |-> s, payload |-> p]}
  /\ zsubs' = { z \in zsubs : ~(z.sess = s /\ KeyIntersects(z.ke, ke)) }
  /\ subs' = [subs EXCEPT ![s] = [t \in Topics |->
                 IF \E z \in zsubs' : z.sess = s /\ z.topic = t THEN subs[s][t] ELSE 0]]
  /\ UNCHANGED << chan, enqOrder, blocked >>

\* lines 145, 152-161: ke_to_mqtt_topic_publish(..)? fails, or send_blocking returns
\* Err (channel closed: the receiver is gone); the caller logs a warning
CallbackErr(s, ke, p) ==
  /\ ~ke_to_mqtt_topic_publish(ke, config.scope).ok \/ ~TaskAlive(s)
  /\ dropped' = dropped \cup {[sess |-> s, payload |-> p]}
  /\ UNCHANGED << chan, enqOrder, blocked, subs, zsubs >>

\* line 152: send_blocking finds room
CallbackSent(s, ke, p) ==
  /\ ke_to_mqtt_topic_publish(ke, config.scope).ok
  /\ TaskAlive(s)
  /\ HasRoom(chan[s], CallbackMsg(ke, p))
  /\ chan' = [chan EXCEPT ![s] = ChanPush(@, CallbackMsg(ke, p))]
  /\ enqOrder' = [enqOrder EXCEPT ![s] = Append(@, p)]
  /\ UNCHANGED << dropped, blocked, subs, zsubs >>

\* line 152: the queue is full: send_blocking blocks the calling thread
CallbackBlocks(s, ke, p, thr) ==
  /\ ke_to_mqtt_topic_publish(ke, config.scope).ok
  /\ TaskAlive(s)
  /\ ~HasRoom(chan[s], CallbackMsg(ke, p))
  /\ blocked' = blocked \cup {[sess |-> s, msg |-> CallbackMsg(ke, p), thread |-> thr]}
  /\ UNCHANGED << chan, enqOrder, dropped, subs, zsubs >>

\* a sample published by a participant outside the bridge reaches subscriber z
\* (allowed_origin Any only) and its callback runs on a zenoh runtime thread
RemoteSample(z, ke) ==
  /\ z \in zsubs
  /\ z.origin = "Any"
  /\ KeyIntersects(z.ke, ke)
  /\ nextPayload <= MaxPayloads
  /\ nextPayload' = nextPayload + 1
  /\ UNCHANGED << config, status, worker, lock, declCalls, caller, task, sinkOpen,
                  sinkCloses, published, lastPut >>

RemoteSampleSent(z, ke) ==
  RemoteSample(z, ke) /\ CallbackSent(z.sess, ke, nextPayload)

RemoteSampleErr(z, ke) ==
  RemoteSample(z, ke) /\ CallbackErr(z.sess, ke, nextPayload)

RemoteSampleBlocks(z, ke) ==
  /\ RemoteSample(z, ke)
  /\ Cardinality({ b \in blocked : b.thread = NoCaller }) < MaxRemoteBlocked
  /\ CallbackBlocks(z.sess, ke, nextPayload, NoCaller)

\* a blocked send_blocking wakes up: room was made
BlockedSendCompletes(b) ==
  /\ b \in blocked
  /\ TaskAlive(b.sess)
  /\ HasRoom(chan[b.sess], b.msg)
  /\ chan' = [chan EXCEPT ![b.sess] = ChanPush(@, b.msg)]
  /\ enqOrder' = [enqOrder EXCEPT ![b.sess] = Append(@, b.msg.payload)]
  /\ blocked' = blocked \ {b}
  /\ UNCHANGED << config, status, worker, subs, lock, zsubs, declCalls, caller, task, sinkOpen,
                  sinkCloses, published, dropped, lastPut, nextPayload >>

BlockedSendNotWoken(b) ==
  /\ b \in blocked
  /\ ~TaskAlive(b.sess)
  /\ dropped' = dropped \cup {[sess |-> b.sess, payload |-> b.msg.payload]}
  /\ UNCHANGED << config, status, worker, subs, lock, zsubs, declCalls, caller, chan, task,
                  sinkOpen, sinkCloses, published, enqOrder, blocked, lastPut, nextPayload >>

\* a blocked send_blocking wakes up: the channel was closed (receiver dropped)
BlockedSendFails(b) ==
  /\ b \in blocked
  /\ ~TaskAlive(b.sess)
  /\ dropped' = dropped \cup {[sess |-> b.sess, payload |-> b.msg.payload]}
  /\ blocked' = blocked \ {b}
  /\ UNCHANGED << config, status, worker, subs, lock, zsubs, declCalls, caller, chan, task,
                  sinkOpen, sinkCloses, published, enqOrder, lastPut, nextPayload >>

\* -------------------------------------------------------- route_mqtt_to_zenoh
RouteEnabled(c, s) ==
  /\ caller[c].pc = "idle"
  /\ status[s] = "alive"
  /\ ~WorkerBusy(worker[s])

\* lines 116-120: topic.try_into()? fails
RouteTranslationError(c, s, topic) ==
  /\ RouteEnabled(c, s)
  /\ ~RouteKeyExpr(topic, config.scope).ok
  /\ caller' = [caller EXCEPT ![c] =
                  [pc |-> "idle", op |-> "route", sess |-> s, topic |-> topic,
                   loc |-> destination(topic), payload |-> 0, todo |-> {},
                   ret |-> "TranslationError", puts |-> 0]]
  /\ UNCHANGED << config, status, worker, subs, lock, zsubs, declCalls, chan, task, sinkOpen,
                  sinkCloses, published, enqOrder, blocked, dropped, lastPut, nextPayload >>

RoutePutErrRetries(c, s, topic) ==
  /\ RouteEnabled(c, s)
  /\ RouteKeyExpr(topic, config.scope).ok
  /\ lastPut' = [topic |-> topic, dest |-> destination(topic), ok |-> TRUE]
  /\ caller' = [caller EXCEPT ![c] =
                  [pc |-> "idle", op |-> "route", sess |-> s, topic |-> topic,
                   loc |-> destination(topic), payload |-> 0, todo |-> {},
                   ret |-> "Ok", puts |-> 2]]
  /\ UNCHANGED << config, status, worker, subs, lock, zsubs, declCalls, chan, task, sinkOpen,
                  sinkCloses, published, enqOrder, blocked, dropped, nextPayload >>

\* lines 130-135: the put is rejected by the zenoh session; the Err is returned
RoutePutErr(c, s, topic) ==
  /\ RouteEnabled(c, s)
  /\ RouteKeyExpr(topic, config.scope).ok
  /\ lastPut' = [topic |-> topic, dest |-> destination(topic), ok |-> FALSE]
  /\ caller' = [caller EXCEPT ![c] =
                  [pc |-> "idle", op |-> "route", sess |-> s, topic |-> topic,
                   loc |-> destination(topic), payload |-> 0, todo |-> {},
                   ret |-> "OverlayError", puts |-> 1]]
  /\ UNCHANGED << config, status, worker, subs, lock, zsubs, declCalls, chan, task, sinkOpen,
                  sinkCloses, published, enqOrder, blocked, dropped, nextPayload >>

\* lines 130-135: the put is accepted; inside res() the zenoh session picks the
\* callbacks of the matching subscribers of this session object and invokes them
\* one after the other on the calling thread
RoutePut(c, s, topic) ==
  LET ke == RouteKeyExpr(topic, config.scope).ke
  IN /\ RouteEnabled(c, s)
     /\ RouteKeyExpr(topic, config.scope).ok
     /\ nextPayload <= MaxPayloads
     /\ nextPayload' = nextPayload + 1
     /\ lastPut' = [topic |-> topic, dest |-> destination(topic), ok |-> TRUE]
     /\ caller' = [caller EXCEPT ![c] =
                     [pc |-> "putting", op |-> "route", sess |-> s, topic |-> topic,
                      loc |-> destination(topic), payload |-> nextPayload,
                      todo |-> { z \in zsubs : KeyIntersects(z.ke, ke) }, ret |-> "none",
                      puts |-> 1]]
     /\ UNCHANGED << config, status, worker, subs, lock, zsubs, declCalls, chan, task, sinkOpen,
                     sinkCloses, published, enqOrder, blocked, dropped >>

\* the handler's thread is inside put and not blocked in a callback
PutRunning(c) ==
  /\ caller[c].pc = "putting"
  /\ \A b \in blocked : b.thread # c

PutCallback(c, z) ==
  /\ PutRunning(c)
  /\ z \in caller[c].todo
  /\ caller' = [caller EXCEPT ![c].todo = @ \ {z}]
  /\ UNCHANGED << config, status, worker, lock, declCalls, task, sinkOpen,
                  sinkCloses, published, lastPut, nextPayload >>

PutCallbackSent(c, z) ==
  PutCallback(c, z)
  /\ CallbackSent(z.sess, RouteKeyExpr(caller[c].topic, config.scope).ke, caller[c].payload)

PutCallbackErr(c, z) ==
  PutCallback(c, z)
  /\ CallbackErr(z.sess, RouteKeyExpr(caller[c].topic, config.scope).ke, caller[c].payload)

PutCallbackBlocks(c, z) ==
  PutCallback(c, z)
  /\ CallbackBlocks(z.sess, RouteKeyExpr(caller[c].topic, config.scope).ke, caller[c].payload, c)

\* every callback returned: put(..).res().await yields Ok(())
RouteReturn(c) ==
  /\ PutRunning(c)
  /\ caller[c].todo = {}
  /\ caller' = Return(c, "Ok")
  /\ UNCHANGED << config, status, worker, subs, lock, zsubs, declCalls, chan, task, sinkOpen,
                  sinkCloses, published, enqOrder, blocked, dropped, lastPut, nextPayload >>

\* ------------------------------------------------------- spawn_mqtt_publisher
TaskRecvAfterClose(s) ==
  /\ status[s] # "absent"
  /\ task[s].pc # "Received"
  /\ ~WorkerBusy(worker[s])
  /\ chan[s] # <<>>
  /\ task' = [task EXCEPT ![s] = [pc |-> "Received", msg |-> Head(chan[s])]]
  /\ chan' = [chan EXCEPT ![s] = Tail(@)]
  /\ UNCHANGED << config, status, worker, subs, lock, zsubs, declCalls, caller, sinkOpen,
                  sinkCloses, published, enqOrder, blocked, dropped, lastPut, nextPayload >>

TaskRecvKeepsMessage(s) ==
  /\ status[s] # "absent"
  /\ task[s].pc = "Running"
  /\ ~WorkerBusy(worker[s])
  /\ chan[s] # <<>>
  /\ task' = [task EXCEPT ![s] = [pc |-> "Received", msg |-> Head(chan[s])]]
  /\ UNCHANGED << config, status, worker, subs, lock, zsubs, declCalls, caller, chan, sinkOpen,
                  sinkCloses, published, enqOrder, blocked, dropped, lastPut, nextPayload >>

\* line 167: rx.recv().await yields a message (also from a closed, non-empty channel)
TaskRecv(s) ==
  /\ status[s] # "absent"
  /\ task[s].pc = "Running"
  /\ ~WorkerBusy(worker[s])
  /\ chan[s] # <<>>
  /\ task' = [task EXCEPT ![s] = [pc |-> "Received", msg |-> Head(chan[s])]]
  /\ chan' = [chan EXCEPT ![s] = Tail(@)]
  /\ UNCHANGED << config, status, worker, subs, lock, zsubs, declCalls, caller, sinkOpen,
                  sinkCloses, published, enqOrder, blocked, dropped, lastPut, nextPayload >>

\* lines 169-170: sink open, publish_at_most_once succeeds; loop
TaskPublishOk(s) ==
  /\ task[s].pc = "Received"
  /\ sinkOpen[s]
  /\ published' = [published EXCEPT ![s] = Append(@, task[s].msg.payload)]
  /\ task' = [task EXCEPT ![s] = [pc |-> "Running", msg |-> <<>>]]
  /\ UNCHANGED << config, status, worker, subs, lock, zsubs, declCalls, caller, chan, sinkOpen,
                  sinkCloses, enqOrder, blocked, dropped, lastPut, nextPayload >>

TaskPublishErrRetries(s) ==
  /\ task[s].pc = "Received"
  /\ sinkOpen[s]
  /\ Len(published[s]) < MaxPayloads
  /\ published' = [published EXCEPT ![s] = Append(@, task[s].msg.payload)]
  /\ UNCHANGED << config, status, worker, subs, lock, zsubs, declCalls, caller, chan, task,
                  sinkOpen, sinkCloses, enqOrder, blocked, dropped, lastPut, nextPayload >>

TaskPublishErrClosesEverySink(s) ==
  /\ task[s].pc = "Received"
  /\ sinkOpen[s]
  /\ published' = [published EXCEPT ![s] = Append(@, task[s].msg.payload)]
  /\ sinkOpen' = [o \in Sessions |-> FALSE]
  /\ sinkCloses' = [sinkCloses EXCEPT ![s] = @ + 1]
  /\ task' = [task EXCEPT ![s] = [pc |-> "ClosedSinkFailed", msg |-> <<>>]]
  /\ UNCHANGED << config, status, worker, subs, lock, zsubs, declCalls, caller, chan,
                  enqOrder, blocked, dropped, lastPut, nextPayload >>

\* lines 170-177: publish_at_most_once fails; sink.close(); break
TaskPublishErr(s) ==
  /\ task[s].pc = "Received"
  /\ sinkOpen[s]
  /\ published' = [published EXCEPT ![s] = Append(@, task[s].msg.payload)]
  /\ sinkOpen' = [sinkOpen EXCEPT ![s] = FALSE]
  /\ sinkCloses' = [sinkCloses EXCEPT ![s] = @ + 1]
  /\ task' = [task EXCEPT ![s] = [pc |-> "ClosedSinkFailed", msg |-> <<>>]]
  /\ UNCHANGED << config, status, worker, subs, lock, zsubs, declCalls, caller, chan,
                  enqOrder, blocked, dropped, lastPut, nextPayload >>

TaskSinkClosedPublishes(s) ==
  /\ task[s].pc = "Received"
  /\ ~sinkOpen[s]
  /\ published' = [published EXCEPT ![s] = Append(@, task[s].msg.payload)]
  /\ task' = [task EXCEPT ![s] = [pc |-> "ClosedSinkClosed", msg |-> <<>>]]
  /\ UNCHANGED << config, status, worker, subs, lock, zsubs, declCalls, caller, chan, sinkOpen,
                  sinkCloses, enqOrder, blocked, dropped, lastPut, nextPayload >>

\* lines 179-182: sink.is_open() is false; break
TaskSinkClosed(s) ==
  /\ task[s].pc = "Received"
  /\ ~sinkOpen[s]
  /\ task' = [task EXCEPT ![s] = [pc |-> "ClosedSinkClosed", msg |-> <<>>]]
  /\ UNCHANGED << config, status, worker, subs, lock, zsubs, declCalls, caller, chan, sinkOpen,
                  sinkCloses, published, enqOrder, blocked, dropped, lastPut, nextPayload >>

\* lines 184-187: rx.recv() yields Err: the channel is empty and every Sender is dropped
TaskChannelClosed(s) ==
  /\ status[s] # "absent"
  /\ task[s].pc = "Running"
  /\ ~WorkerBusy(worker[s])
  /\ chan[s] = <<>>
  /\ ~SenderAlive(s)
  /\ task' = [task EXCEPT ![s] = [pc |-> "ClosedChannel", msg |-> <<>>]]
  /\ UNCHANGED << config, status, worker, subs, lock, zsubs, declCalls, caller, chan, sinkOpen,
                  sinkCloses, published, enqOrder, blocked, dropped, lastPut, nextPayload >>

\* the MQTT transport closes the client's sink (the client went away)
SinkClosedByTransport(s) ==
  /\ status[s] # "absent"
  /\ sinkOpen[s]
  /\ ~WorkerBusy(worker[s])
  /\ sinkOpen' = [sinkOpen EXCEPT ![s] = FALSE]
  /\ UNCHANGED << config, status, worker, subs, lock, zsubs, declCalls, caller, chan, task,
                  sinkCloses, published, enqOrder, blocked, dropped, lastPut, nextPayload >>

DropSessionKeepsSubscribers(s) ==
  /\ status[s] = "alive"
  /\ \A c \in Callers : caller[c].pc # "idle" => caller[c].sess # s
  /\ ~WorkerBusy(worker[s])
  /\ status' = [status EXCEPT ![s] = "dropped"]
  /\ subs' = [subs EXCEPT ![s] = [t \in Topics |-> 0]]
  /\ UNCHANGED << config, worker, lock, zsubs, declCalls, caller, chan, task, sinkOpen,
                  sinkCloses, published, enqOrder, blocked, dropped, lastPut, nextPayload >>

\* ------------------------------------------------- drop of a MqttSessionState
\* no method borrows the state; the fields are dropped: every Subscriber in subs is
\* undeclared (its callback, with the tx clone, is released once no invocation
\* uses it) and self.tx is dropped
DropSession(s) ==
  /\ status[s] = "alive"
  /\ \A c \in Callers : caller[c].pc # "idle" => caller[c].sess # s
  /\ ~WorkerBusy(worker[s])
  /\ status' = [status EXCEPT ![s] = "dropped"]
  /\ subs' = [subs EXCEPT ![s] = [t \in Topics |-> 0]]
  /\ zsubs' = { z \in zsubs : z.sess # s }
  /\ UNCHANGED << config, worker, lock, declCalls, caller, chan, task, sinkOpen,
                  sinkCloses, published, enqOrder, blocked, dropped, lastPut, nextPayload >>

\* ---------------------------------------------------------------------- Next
\* handlers of the clients in SS, run by the handler invocations CS on topics TS
MapStep(CS, SS, TS) ==
  \/ \E c \in CS, s \in SS, t \in TS : MapCall(c, s, t)
  \/ \E c \in CS : MapAlreadySubscribed(c)
  \/ \E c \in CS : MapTranslationError(c)
  \/ \E c \in CS : MapDeclare(c)
  \/ \E c \in CS : MapDeclareOk(c)
  \/ \E c \in CS : MapDeclareErr(c)

RouteStep(CS, SS, TS) ==
  \/ \E c \in CS, s \in SS, t \in TS : RouteTranslationError(c, s, t)
  \/ \E c \in CS, s \in SS, t \in TS : RoutePutErr(c, s, t)
  \/ \E c \in CS, s \in SS, t \in TS : RoutePut(c, s, t)
  \/ \E c \in CS : \E z \in caller[c].todo : PutCallbackSent(c, z)
  \/ \E c \in CS : \E z \in caller[c].todo : PutCallbackErr(c, z)
  \/ \E c \in CS : \E z \in caller[c].todo : PutCallbackBlocks(c, z)
  \/ \E c \in CS : RouteReturn(c)

\* samples from outside the bridge
RemoteStep ==
  \/ \E z \in zsubs, ke \in RemoteKeys : RemoteSampleSent(z, ke)
  \/ \E z \in zsubs, ke \in RemoteKeys : RemoteSampleErr(z, ke)
  \/ \E z \in zsubs, ke \in RemoteKeys : RemoteSampleBlocks(z, ke)

BlockedStep ==
  \/ \E b \in blocked : BlockedSendCompletes(b)
  \/ \E b \in blocked : BlockedSendFails(b)

TaskStep ==
  \/ \E s \in Sessions : TaskRecv(s)
  \/ \E s \in Sessions : TaskPublishOk(s)
  \/ \E s \in Sessions : TaskPublishErr(s)
  \/ \E s \in Sessions : TaskSinkClosed(s)
  \/ \E s \in Sessions : TaskChannelClosed(s)

Next ==
  \/ \E s \in Sessions, w \in Workers : MqttSessionState_new(s, w)
  \/ MapStep(Callers, Sessions, Topics)
  \/ RouteStep(Callers, Sessions, Topics)
  \/ RemoteStep
  \/ BlockedStep
  \/ TaskStep
  \/ \E s \in Sessions : SinkClosedByTransport(s)
  \/ \E s \in Sessions : DropSession(s)

Spec == Init /\ [][Next]_vars

\* concurrent handler invocations on the registries of two clients
NextRegistry ==
  \/ \E s \in Sessions : MqttSessionState_new(s, "w1")
  \/ MapStep(Callers, Sessions, Topics)
  \/ \E s \in Sessions : DropSession(s)

SpecRegistry == Init /\ [][NextRegistry]_vars

\* one client, one handler invocation at a time, every topic: subscriptions and
\* publications under the allow/deny policy
NextRouting ==
  \/ MapStep({1}, {"A"}, Topics)
  \/ RouteStep({1}, {"A"}, Topics)
  \/ \E s \in Sessions : TaskRecv(s)
  \/ \E s \in Sessions : TaskPublishOk(s)
  \/ \E s \in Sessions : TaskPublishErr(s)

SpecRouting == Init /\ [][NextRouting]_vars

\* one client, one handler invocation at a time: the delivery pipeline
NextPipeline ==
  \/ MapStep({1}, {"A"}, {TopicHome, TopicBad})
  \/ RouteStep({1}, {"A"}, {TopicHome, TopicBad})
  \/ RemoteStep
  \/ BlockedStep
  \/ TaskStep
  \/ \E s \in Sessions : SinkClosedByTransport(s)
  \/ \E s \in Sessions : DropSession(s)

SpecPipeline == Init /\ [][NextPipeline]_vars

\* two clients, one handler invocation at a time, with the scheduling the runtime
\* guarantees: a ready publisher task, a woken send_blocking and a handler inside put
\* each take their next step unless their thread is kept busy
NextTeardown ==
  \/ \E s \in Sessions : MqttSessionState_new(s, "w1")
  \/ \E s \in Sessions : MapCall(1, s, TopicHome)
  \/ MapDeclare(1)
  \/ MapDeclareOk(1)
  \/ \E s \in Sessions : RoutePut(1, s, TopicHome)
  \/ \E z \in caller[1].todo : PutCallbackSent(1, z)
  \/ \E z \in caller[1].todo : PutCallbackErr(1, z)
  \/ \E z \in caller[1].todo : PutCallbackBlocks(1, z)
  \/ RouteReturn(1)
  \/ \E z \in zsubs, ke \in RemoteKeys : RemoteSampleSent(z, ke)
  \/ \E z \in zsubs, ke \in RemoteKeys : RemoteSampleBlocks(z, ke)
  \/ BlockedStep
  \/ TaskStep
  \/ \E s \in Sessions : SinkClosedByTransport(s)
  \/ \E s \in Sessions : DropSession(s)

PutProgress ==
  \E c \in Callers :
    \/ \E z \in caller[c].todo : PutCallbackSent(c, z)
    \/ \E z \in caller[c].todo : PutCallbackErr(c, z)
    \/ \E z \in caller[c].todo : PutCallbackBlocks(c, z)
    \/ RouteReturn(c)

TaskProgress(s) ==
  \/ TaskRecv(s)
  \/ TaskPublishOk(s)
  \/ TaskPublishErr(s)
  \/ TaskSinkClosed(s)
  \/ TaskChannelClosed(s)

Fairness ==
  /\ \A s \in Sessions : WF_vars(TaskProgress(s))
  /\ WF_vars(BlockedStep)
  /\ WF_vars(PutProgress)

SpecTeardown == Init /\ [][NextTeardown]_vars /\ Fairness

\* one client with the same scheduling
SpecPipelineFair == Init /\ [][NextPipeline]_vars /\ Fairness

\* ==================================================================== claims
LiveSubs(s, t) == { z \in zsubs : z.sess = s /\ z.topic = t }

MapInFlight(c) == caller[c].op = "map" /\ caller[c].pc \in {"wait_lock", "declaring"}

\* C1: repeated map_mqtt_subscription(t) calls on one session leave exactly one
\* subscriber declared for t and one registry entry for t (the entry names that
\* subscriber), and a call that finds t in the registry returns Ok(()) without
\* invoking declare_subscriber and without touching the registry.
C1_OneEntryOneSubscriber ==
  \A s \in Sessions, t \in Topics :
    /\ Cardinality(LiveSubs(s, t)) = (IF subs[s][t] # 0 THEN 1 ELSE 0)
    /\ \A z \in LiveSubs(s, t) : z.id = subs[s][t]

C1_RepeatedCallIsNoOp ==
  \A c \in Callers :
    ( /\ caller[c].pc = "wait_lock"
      /\ subs[caller[c].sess][caller[c].topic] # 0
      /\ caller'[c] # caller[c] )
    => /\ caller'[c].pc = "idle"
       /\ caller'[c].ret = "Ok"
       /\ UNCHANGED << subs, zsubs, declCalls >>

C1_Idempotent == []C1_OneEntryOneSubscriber /\ [][C1_RepeatedCallIsNoOp]_vars

\* two calls for the same topic both returned Ok(()) and declare_subscriber ran once
C1_Witness ==
  /\ \A c \in Callers :
       /\ caller[c].pc = "idle" /\ caller[c].op = "map" /\ caller[c].ret = "Ok"
       /\ caller[c].sess = "A" /\ caller[c].topic = TopicHome
  /\ declCalls["A"][TopicHome] = 1
  /\ subs["A"][TopicHome] = 1

\* C2 as stated: with concurrent map_mqtt_subscription calls for one topic,
\* declare_subscriber is invoked at most once for that topic.
C2_DeclareInvokedAtMostOnce ==
  \A s \in Sessions, t \in Topics : declCalls[s][t] <= 1

\* C2 amended: under concurrent calls at most one declaration is in progress per
\* session (the holder of the write lock), it is only made for a topic absent from
\* the registry, at most one subscriber is declared per topic at any time, and an
\* inserted entry is never overwritten; declare_subscriber is invoked again for a
\* topic only after an earlier invocation failed.
C2_OneDeclarationAtATime ==
  \A s \in Sessions :
    /\ \A c, d \in Callers :
         (caller[c].pc = "declaring" /\ caller[d].pc = "declaring"
          /\ caller[c].sess = s /\ caller[d].sess = s) => c = d
    /\ \A c \in Callers :
         (caller[c].pc = "declaring" /\ caller[c].sess = s)
         => lock[s] = c /\ subs[s][caller[c].topic] = 0
    /\ \A t \in Topics : Cardinality(LiveSubs(s, t)) <= 1

C2_NoOverwriteNoSecondDeclare ==
  \A s \in Sessions, t \in Topics :
    /\ (subs[s][t] # 0 /\ status'[s] = "alive") => subs'[s][t] = subs[s][t]
    /\ declCalls'[s][t] # declCalls[s][t]
       => /\ subs[s][t] = 0
          /\ LiveSubs(s, t) = {}
          /\ \A c \in Callers : ~(caller[c].pc = "declaring" /\ caller[c].sess = s)

C2_Amended == []C2_OneDeclarationAtATime /\ [][C2_NoOverwriteNoSecondDeclare]_vars

\* one caller holds the lock inside declare_subscriber while the other waits for the
\* same topic
C2_Witness ==
  /\ caller[1].pc = "declaring" /\ caller[2].pc = "wait_lock"
  /\ caller[1].sess = caller[2].sess /\ caller[1].topic = caller[2].topic

\* C10: a map_mqtt_subscription(t) call that fails (topic translation or
\* declare_subscriber) returns the error, leaves registry and declared subscribers
\* as they were with no entry for t, leaves the write lock free, and a later call
\* for t that gets the lock invokes declare_subscriber again.
C10_FailureCommitsNothing ==
  \A c \in Callers :
    ( /\ MapInFlight(c)
      /\ caller'[c].pc = "idle"
      /\ caller'[c].ret # "Ok" )
    => /\ caller'[c].ret \in {"TranslationError", "OverlayError"}
       /\ UNCHANGED << subs, zsubs >>
       /\ subs'[caller[c].sess][caller[c].topic] = 0
       /\ lock'[caller[c].sess] = NoCaller

C10_RetryDeclaresAgain ==
  \A c \in Callers :
    ( /\ caller[c].pc = "wait_lock"
      /\ declCalls[caller[c].sess][caller[c].topic] >= 1
      /\ subs[caller[c].sess][caller[c].topic] = 0
      /\ caller'[c] # caller[c] )
    => /\ caller'[c].pc = "declaring"
       /\ declCalls'[caller[c].sess][caller[c].topic]
            = declCalls[caller[c].sess][caller[c].topic] + 1

C10_FailedRegistration ==
  [][C10_FailureCommitsNothing]_vars /\ [][C10_RetryDeclaresAgain]_vars

\* declare_subscriber failed for one caller, and the second invocation, made by a
\* later call, registered the topic
C10_Witness ==
  /\ caller[1].pc = "idle" /\ caller[1].op = "map" /\ caller[1].ret = "OverlayError"
  /\ caller[1].sess = "A" /\ caller[1].topic = TopicHome
  /\ declCalls["A"][TopicHome] = 2
  /\ subs["A"][TopicHome] = 2
  /\ caller[2].ret = "TranslationError"

\* the visibility the allow/deny policy asks for
PolicyLocality(topic) == IF topic \in config.denied THEN "SessionLocal" ELSE "Any"

\* C3: every subscriber declared by map_mqtt_subscription(t), and every put made by
\* route_mqtt_to_zenoh(t, _), carries SessionLocal when the policy denies t and Any
\* when it allows t; no subscriber or put for a denied topic carries Any.
C3_PolicyDrivenVisibility ==
  /\ \A z \in zsubs : z.origin = PolicyLocality(z.topic)
  /\ \A c \in Callers :
       caller[c].pc \in {"declaring", "putting"} => caller[c].loc = PolicyLocality(caller[c].topic)
  /\ lastPut # NoPut => lastPut.dest = PolicyLocality(lastPut.topic)
  /\ \A z \in zsubs : z.topic \in config.denied => z.origin # "Any"
  /\ (lastPut # NoPut /\ lastPut.topic \in config.denied) => lastPut.dest # "Any"

\* a denied topic is subscribed and published, and an allowed one is subscribed
C3_Witness ==
  /\ \E z \in zsubs : z.topic \in config.denied /\ z.origin = "SessionLocal"
  /\ \E z \in zsubs : z.topic \notin config.denied /\ z.origin = "Any"
  /\ lastPut.ok /\ lastPut.topic \in config.denied /\ lastPut.dest = "SessionLocal"

\* messages a callback has enqueued that are neither handed to the sink nor discarded
Undelivered(s) == Len(chan[s]) + (IF task[s].pc = "Received" THEN 1 ELSE 0)

\* C4 as stated: per session, the messages enqueued and not yet handed to the sink
\* (in the channel or received by the publisher task) never number more than 1.
C4_AtMostOneUndelivered ==
  \A s \in Sessions : TaskAlive(s) => Undelivered(s) <= 1

\* C4 amended: per session the channel holds at most 1 message and the publisher
\* task holds at most 1 more between rx.recv() and the sink call, so the
\* undelivered messages never number more than 2.
C4_Amended ==
  \A s \in Sessions : Len(chan[s]) <= 1 /\ Undelivered(s) <= 2

\* the task has received a message and the next one is already queued
C4_Witness ==
  /\ task["A"].pc = "Received"
  /\ Len(chan["A"]) = 1
  /\ chan["A"][1].payload # task["A"].msg.payload

\* C5: the channel never holds more than one message; an enqueue completes only on
\* an empty channel, and the channel is emptied only by the publisher task receiving
\* the queued message, however many callbacks are waiting.
C5_AtMostOneQueued == \A s \in Sessions : Len(chan[s]) <= 1

C5_EnqueueWaitsForRecv ==
  \A s \in Sessions :
    /\ enqOrder'[s] # enqOrder[s] => chan[s] = <<>> /\ Len(chan'[s]) = 1
    /\ Len(chan'[s]) < Len(chan[s])
       => task[s].pc = "Running" /\ task'[s] = [pc |-> "Received", msg |-> Head(chan[s])]
    /\ \A b \in blocked :
         (b.sess = s /\ chan[s] # <<>> /\ chan'[s] = chan[s] /\ TaskAlive(s)') => b \in blocked'

C5_BoundedChannel == []C5_AtMostOneQueued /\ [][C5_EnqueueWaitsForRecv]_vars

\* the channel is full while two callbacks (one of a remote sample, one inside a
\* local put) wait in send_blocking
C5_Witness ==
  /\ Len(chan["A"]) = 1
  /\ \E b \in blocked : b.sess = "A" /\ b.thread = NoCaller
  /\ \E b \in blocked : b.sess = "A" /\ b.thread # NoCaller

\* C6: per session the payloads handed to the sink are, in order, an initial part of
\* the payloads in the order their callbacks completed the enqueue, and the sink is
\* called for one message at a time, by the publisher task for the message it holds.
C6_DeliveredInEnqueueOrder ==
  \A s \in Sessions : IsPrefixOf(published[s], enqOrder[s])

C6_OneDeliveryAtATime ==
  \A s \in Sessions :
    published'[s] # published[s]
    => /\ task[s].pc = "Received"
       /\ published'[s] = Append(published[s], task[s].msg.payload)
       /\ task'[s].pc # "Received"

C6_Ordering == []C6_DeliveredInEnqueueOrder /\ [][C6_OneDeliveryAtATime]_vars

\* three messages were delivered, one of them enqueued by the callback of a local put
C6_Witness ==
  /\ Len(published["A"]) = 3
  /\ lastPut.ok

\* payloads of session s whose callback has started and that are not yet handed to
\* the sink: queued, held by the task, or inside a callback
Pending(s) ==
  { chan[s][i].payload : i \in 1..Len(chan[s]) }
  \cup (IF task[s].pc = "Received" THEN {task[s].msg.payload} ELSE {})
  \cup InFlightCallbacks(s)

\* C8 as stated: once the MqttSessionState is dropped, sink.publish_at_most_once is
\* not called again for that session.
C8_NoPublishAfterDrop ==
  [][\A s \in Sessions : status[s] = "dropped" => published'[s] = published[s]]_vars

\* C8 amended: after the drop the publisher task hands to the sink only messages
\* whose callback had started before the drop (queued in the channel, held by the
\* task, or in a callback still running); no later sample joins them.
C8_OnlyPendingAfterDrop ==
  \A s \in Sessions :
    status[s] = "dropped"
    => /\ Pending(s)' \subseteq Pending(s)
       /\ published'[s] # published[s]
          => \E p \in Pending(s) : published'[s] = Append(published[s], p)

C8_Amended == [][C8_OnlyPendingAfterDrop]_vars

\* the session is dropped, the task has received the message that was queued and the
\* sink is open: the message is about to be published
C8_Witness ==
  /\ status["A"] = "dropped"
  /\ task["A"].pc = "Received"
  /\ sinkOpen["A"]

\* C9: a callback that fails (key translation, or send on a channel whose receiver is
\* gone) drops only its event: registry and declared subscribers are unchanged, a
\* handler inside put keeps running, and every registry entry still names a
\* declared subscriber, so later samples reach the callback.
C9_FailureDropsOnlyTheEvent ==
  dropped' # dropped
  => /\ UNCHANGED << subs, zsubs >>
     /\ \A c \in Callers : caller[c].pc = "putting" => caller'[c].pc = "putting"

C9_EntryStaysDeclared ==
  \A s \in Sessions, t \in Topics :
    subs[s][t] # 0 => \E z \in zsubs : z.sess = s /\ z.topic = t /\ z.id = subs[s][t]

C9_SubscriptionSurvives == []C9_EntryStaysDeclared /\ [][C9_FailureDropsOnlyTheEvent]_vars

\* a sample was dropped by the callback and a later sample of the same subscription
\* was enqueued
C9_Witness ==
  /\ subs["A"][TopicHome] # 0
  /\ \E d \in dropped :
       /\ d.sess = "A"
       /\ \E i \in 1..Len(enqOrder["A"]) : enqOrder["A"][i] > d.payload

\* C7: once a MqttSessionState is dropped, its publisher task eventually observes
\* the closed channel (or a closed or failing sink) and terminates.
C7_DropLeadsToTermination ==
  \A s \in Sessions : (status[s] = "dropped") ~> TaskClosed(s)

\* ============================================================ failure isolation
\* two clients on two runtime threads: client A subscribes and publishes, client B
\* subscribes; samples arrive from outside the bridge and the sink of either may fail
NextIsolation ==
  \/ MqttSessionState_new("B", "w2")
  \/ \E s \in Sessions : MapCall(1, s, TopicHome)
  \/ MapDeclare(1)
  \/ MapDeclareOk(1)
  \/ RoutePut(1, "A", TopicHome)
  \/ \E z \in caller[1].todo : PutCallbackSent(1, z)
  \/ \E z \in caller[1].todo : PutCallbackErr(1, z)
  \/ \E z \in caller[1].todo : PutCallbackBlocks(1, z)
  \/ RouteReturn(1)
  \/ \E z \in zsubs, ke \in RemoteKeys : RemoteSampleSent(z, ke)
  \/ \E z \in zsubs, ke \in RemoteKeys : RemoteSampleBlocks(z, ke)
  \/ BlockedStep
  \/ \E s \in Sessions : TaskRecv(s)
  \/ \E s \in Sessions : TaskPublishOk(s)
  \/ \E s \in Sessions : TaskPublishErr(s)

\* a handler inside map_mqtt_subscription is resumed by its runtime
MapProgress ==
  \E c \in Callers :
    \/ MapAlreadySubscribed(c)
    \/ MapTranslationError(c)
    \/ MapDeclare(c)
    \/ MapDeclareOk(c)

\* the plugin configured without a scope
InitIsolation == Init /\ config.scope = <<>>

SpecIsolation == InitIsolation /\ [][NextIsolation]_vars /\ Fairness /\ WF_vars(MapProgress)

Range(q) == { q[i] : i \in 1..Len(q) }

SinkFailed(s) == task[s].pc = "ClosedSinkFailed"

\* the step in which the publisher task of s ends on a sink failure touches neither
\* another session's registry, channel, task, sink and deliveries, nor the registry
\* and the declared subscribers of s itself
C11_FailureStepFrame ==
  \A s \in Sessions :
    (~SinkFailed(s) /\ SinkFailed(s)')
    => /\ \A o \in Sessions \ {s} :
            /\ subs'[o] = subs[o] /\ chan'[o] = chan[o] /\ task'[o] = task[o]
            /\ sinkOpen'[o] = sinkOpen[o] /\ published'[o] = published[o]
       /\ UNCHANGED << subs, zsubs, lock, caller, blocked >>

\* once the publisher task of s has ended, no callback blocks on the channel of s
C11_NoBlockingOnFailed ==
  \A s \in Sessions :
    SinkFailed(s) => \A b \in blocked' \ blocked : b.sess # s

\* after the sink failure of client A, a message enqueued for client B is handed to
\* B's sink (unless B's own publisher task ends)
C11_OthersStillDelivered ==
  \A p \in 1..MaxPayloads :
    (SinkFailed("A") /\ p \in Range(enqOrder["B"]))
      ~> (p \in Range(published["B"]) \/ TaskClosed("B"))

\* after the sink failure of client A, a handler invocation on A returns
C11_HandlersStillReturn ==
  \A c \in Callers :
    (SinkFailed("A") /\ caller[c].sess = "A" /\ caller[c].pc # "idle") ~> (caller[c].pc = "idle")

PutSteps(c) ==
  \/ \E z \in caller[c].todo : PutCallbackSent(c, z)
  \/ \E z \in caller[c].todo : PutCallbackErr(c, z)
  \/ \E z \in caller[c].todo : PutCallbackBlocks(c, z)
  \/ RouteReturn(c)

\* handler b.thread waits in send_blocking for room in the channel of b.sess, the
\* publisher task of b.sess (alive) waits for its runtime thread, and that thread is
\* the one the handler occupies: none of the three has a step
WaitCycle(b) ==
  /\ b.thread # NoCaller
  /\ TaskAlive(b.sess)
  /\ worker[b.sess] = worker[caller[b.thread].sess]
  /\ ~ENABLED BlockedSendCompletes(b)
  /\ ~ENABLED BlockedSendFails(b)
  /\ ~ENABLED TaskProgress(b.sess)
  /\ ~ENABLED PutSteps(b.thread)

\* C12: no reachable state has a route_mqtt_to_zenoh caller, a callback blocked on
\* the capacity-1 enqueue and the publisher task of a live session waiting on one
\* another with no step enabled.
C12_DeadlockFree == \A b \in blocked : ~WaitCycle(b)

\* a route_mqtt_to_zenoh invocation made at most one zsession.put (none when the
\* topic is not a key expression), and what it returned is the result of that put
C13_OneAttemptResultReturned ==
  \A c \in Callers :
    caller[c].op = "route"
    => /\ caller[c].puts <= 1
       /\ ~RouteKeyExpr(caller[c].topic, config.scope).ok
          => caller[c].puts = 0 /\ caller[c].ret = "TranslationError"
       /\ RouteKeyExpr(caller[c].topic, config.scope).ok
          => /\ caller[c].puts = 1
             /\ lastPut.topic = caller[c].topic
             /\ caller[c].pc = "idle" => caller[c].ret = (IF lastPut.ok THEN "Ok" ELSE "OverlayError")

\* a step of a route_mqtt_to_zenoh invocation leaves the registry, its lock and the
\* declared subscribers alone; it makes a put only as its first step, and none when
\* the translation fails
C13_RouteStepFrame ==
  \A c \in Callers :
    (caller'[c] # caller[c] /\ caller'[c].op = "route")
    => /\ UNCHANGED << subs, zsubs, lock, declCalls >>
       /\ caller[c].pc = "putting" => lastPut' = lastPut
       /\ caller'[c].ret = "TranslationError" => lastPut' = lastPut /\ nextPayload' = nextPayload

\* C13: each route_mqtt_to_zenoh call makes at most one put attempt and returns its
\* result unchanged, without retry; a translation failure is returned without any
\* put; the call never changes the subscription registry.
C13_RouteOnce == []C13_OneAttemptResultReturned /\ [][C13_RouteStepFrame]_vars

\* with a subscription registered, a call whose put was rejected returned that error
\* after its single attempt
C13_Witness ==
  /\ \E t \in Topics : subs["A"][t] # 0
  /\ caller[1].op = "route" /\ caller[1].pc = "idle"
  /\ caller[1].ret = "OverlayError" /\ caller[1].puts = 1
  /\ ~lastPut.ok

\* ============================================== re-routing between MQTT clients
\* two clients of the bridge (one zenoh session) subscribe to an allowed and to a
\* denied topic; either publishes on the denied topic; samples arrive from outside
NextReroute ==
  \/ MqttSessionState_new("B", "w1")
  \/ \E s \in Sessions, t \in {TopicHome, TopicSecret} : MapCall(1, s, t)
  \/ MapDeclare(1)
  \/ MapDeclareOk(1)
  \/ \E s \in Sessions : RoutePut(1, s, TopicSecret)
  \/ PutSteps(1)
  \/ \E z \in zsubs, ke \in RemoteKeys : RemoteSampleSent(z, ke)
  \/ \E z \in zsubs, ke \in RemoteKeys : RemoteSampleBlocks(z, ke)
  \/ BlockedStep
  \/ \E s \in Sessions : TaskRecv(s)
  \/ \E s \in Sessions : TaskPublishOk(s)
  \/ \E s \in Sessions : TaskPublishErr(s)

SpecReroute == InitIsolation /\ [][NextReroute]_vars

\* route_mqtt_to_zenoh(t, p) on a denied topic returns Ok
DeniedPutReturns(c) ==
  /\ caller[c].op = "route" /\ caller[c].pc = "putting" /\ caller'[c].pc = "idle"
  /\ ~is_allowed(caller[c].topic, config)

\* the put on a denied topic is restricted to this zenoh session, and a callback
\* waiting in send_blocking with a denied topic was invoked by a local put
C14_NotObservableOutside ==
  /\ (lastPut # NoPut /\ ~is_allowed(lastPut.topic, config)) => lastPut.dest = "SessionLocal"
  /\ \A b \in blocked : ~is_allowed(b.msg.topic, config) => b.thread # NoCaller

\* a message on a denied topic enters a channel only from the callback invoked by a
\* put of a handler of this bridge, with that put's payload
C14_NothingFromOutside ==
  \A s \in Sessions :
    enqOrder'[s] # enqOrder[s]
    => LET m == chan'[s][Len(chan'[s])]
       IN ~is_allowed(m.topic, config)
          => \E c \in Callers : /\ caller[c].pc = "putting"
                                /\ caller[c].topic = m.topic
                                /\ caller[c].payload = m.payload

\* C14 as stated: when route_mqtt_to_zenoh(t, p) on a denied topic t returns Ok, (t, p)
\* has been enqueued on the channel of every session holding a subscription for t;
\* the put is not observable outside the bridge and no sample from outside is
\* enqueued through such a subscription.
C14_ReroutedToEverySubscriber ==
  \A c \in Callers :
    DeniedPutReturns(c)
    => \A z \in zsubs : z.topic = caller[c].topic => caller[c].payload \in Range(enqOrder[z.sess])

C14_DeniedRerouting ==
  /\ []C14_NotObservableOutside
  /\ [][C14_NothingFromOutside /\ C14_ReroutedToEverySubscriber]_vars

\* C14 amended: as above, except that for a subscriber whose publisher task has
\* already terminated the callback's send fails and the event is dropped.
C14_ReroutedOrDropped ==
  \A c \in Callers :
    DeniedPutReturns(c)
    => \A z \in zsubs :
         z.topic = caller[c].topic
         => \/ caller[c].payload \in Range(enqOrder[z.sess])
            \/ ~TaskAlive(z.sess) /\ [sess |-> z.sess, payload |-> caller[c].payload] \in dropped

C14_Amended ==
  /\ []C14_NotObservableOutside
  /\ [][C14_NothingFromOutside /\ C14_ReroutedOrDropped]_vars

\* client B's put on the denied topic has run the callback of client A's
\* SessionLocal subscription and the payload is on A's channel; a sample from
\* outside has reached an allowed subscription meanwhile
C14_Witness ==
  /\ caller[1].pc = "putting" /\ caller[1].sess = "B" /\ caller[1].topic = TopicSecret
  /\ caller[1].todo = {}
  /\ \E z \in zsubs : z.sess = "A" /\ z.topic = TopicSecret /\ z.origin = "SessionLocal"
  /\ Len(chan["A"]) = 1 /\ chan["A"][1] = [topic |-> TopicSecret, payload |-> caller[1].payload]
  /\ lastPut.dest = "SessionLocal"
  /\ \E s \in Sessions : \E i \in 1..Len(enqOrder[s]) : enqOrder[s][i] < caller[1].payload

NoDuplicates(q) == \A i, j \in 1..Len(q) : q[i] = q[j] => i = j

Queued(s) == { chan[s][i].payload : i \in 1..Len(chan[s]) }
Held(s) == IF task[s].pc = "Received" THEN {task[s].msg.payload} ELSE {}

\* every enqueued message is in one place only: still in the channel, held by the
\* publisher task after its one receive, or passed to the sink (once)
C15_ConsumedAtMostOnce ==
  \A s \in Sessions :
    /\ NoDuplicates(enqOrder[s]) /\ NoDuplicates(published[s])
    /\ Queued(s) \cup Held(s) \cup Range(published[s]) \subseteq Range(enqOrder[s])
    /\ Queued(s) \cap Held(s) = {}
    /\ Queued(s) \cap Range(published[s]) = {}
    /\ Held(s) \cap Range(published[s]) = {}

\* a receive moves the head of the channel to the task
C15_ReceiveMoves ==
  \A s \in Sessions :
    (task[s].pc = "Running" /\ task'[s].pc = "Received")
    => task'[s].msg = Head(chan[s]) /\ chan'[s] = Tail(chan[s])

C15_NothingLeftAtTermination == \A s \in Sessions : TaskClosed(s) => chan[s] = <<>>

\* C15 as stated: every enqueued message is received once, never passed to the sink
\* twice, and none is left in the channel when the publisher task terminates, for
\* any cause of termination.
C15_ConsumedExactlyOnce ==
  /\ [](C15_ConsumedAtMostOnce /\ C15_NothingLeftAtTermination)
  /\ [][C15_ReceiveMoves]_vars

C15_LeftOnlyOnSinkTermination ==
  \A s \in Sessions :
    /\ task[s].pc = "ClosedChannel" => chan[s] = <<>>
    /\ TaskClosed(s) => Len(chan[s]) <= ChannelCapacity

\* C15 amended: every enqueued message is received at most once and passed to the
\* sink at most once; nothing is left in the channel when the task terminates on
\* channel closure, and at most one message (the capacity) is left, and discarded,
\* when it terminates on a failed or closed sink.
C15_Amended ==
  /\ [](C15_ConsumedAtMostOnce /\ C15_LeftOnlyOnSinkTermination)
  /\ [][C15_ReceiveMoves]_vars

\* two messages went to the sink, the second write failed, and a third is still in
\* the channel of the terminated task
C15_Witness ==
  /\ task["A"].pc = "ClosedSinkFailed"
  /\ Len(published["A"]) = 2
  /\ Len(chan["A"]) = 1

\* with a message received and the sink open, the task makes one sink write: on
\* success it is Running again, on failure it has called sink.close() once and is
\* Closed (sink-failed)
C16_SinkWriteOutcome ==
  \A s \in Sessions :
    (task[s].pc = "Received" /\ sinkOpen[s] /\ task'[s] # task[s])
    => /\ published'[s] = Append(published[s], task[s].msg.payload)
       /\ \/ /\ task'[s].pc = "Running"
             /\ sinkCloses'[s] = sinkCloses[s] /\ sinkOpen'[s]
          \/ /\ task'[s].pc = "ClosedSinkFailed"
             /\ sinkCloses'[s] = sinkCloses[s] + 1 /\ ~sinkOpen'[s]

\* sink.close() is called on the failure path only
C16_CloseOnlyOnFailure ==
  \A s \in Sessions :
    sinkCloses'[s] # sinkCloses[s]
    => task[s].pc = "Received" /\ sinkOpen[s] /\ task'[s].pc = "ClosedSinkFailed"

\* sink.close() was called once exactly when the task is Closed (sink-failed), and no
\* message was written to the sink twice
C16_ClosedOnce ==
  \A s \in Sessions :
    /\ sinkCloses[s] = (IF task[s].pc = "ClosedSinkFailed" THEN 1 ELSE 0)
    /\ NoDuplicates(published[s])

\* C16: a successful sink write leaves the publisher task Running; a failed one makes
\* it call sink.close() exactly once and terminate in Closed (sink-failed) without
\* retrying; sink.close() is called on no other path.
C16_SinkFailure == []C16_ClosedOnce /\ [][C16_SinkWriteOutcome /\ C16_CloseOnlyOnFailure]_vars

\* a write succeeded, the next one failed
C16_Witness ==
  /\ task["A"].pc = "ClosedSinkFailed"
  /\ sinkCloses["A"] = 1
  /\ ~sinkOpen["A"]
  /\ Len(published["A"]) = 2

\* a message received while sink.is_open() is false ends the task in Closed
\* (sink-closed) with no sink call at all
C17_ClosedSinkNoDelivery ==
  \A s \in Sessions :
    (task[s].pc = "Received" /\ ~sinkOpen[s] /\ task'[s] # task[s])
    => /\ task'[s].pc = "ClosedSinkClosed"
       /\ published'[s] = published[s]
       /\ sinkCloses'[s] = sinkCloses[s]

\* sink.publish_at_most_once is called only for the message the task holds, with the
\* sink reporting open
C17_PublishOnlyWhenOpen ==
  \A s \in Sessions :
    published'[s] # published[s]
    => /\ task[s].pc = "Received" /\ sinkOpen[s]
       /\ published'[s] = Append(published[s], task[s].msg.payload)

\* C17: the publisher task never attempts delivery on a sink that reports closed: it
\* terminates in Closed (sink-closed) without publish_at_most_once and without
\* sink.close(); every publish_at_most_once follows is_open() = true for that message.
C17_NoDeliveryOnClosedSink == [][C17_ClosedSinkNoDelivery /\ C17_PublishOnlyWhenOpen]_vars

\* one message was delivered, then the transport closed the sink and the next
\* message ended the task
C17_Witness ==
  /\ task["A"].pc = "ClosedSinkClosed"
  /\ Len(published["A"]) = 1
  /\ Len(enqOrder["A"]) >= 2
  /\ sinkCloses["A"] = 0

\* a terminated publisher task takes no further step: no receive, no sink call, no
\* return to Running, no second termination
C18_ClosedIsTerminal ==
  \A s \in Sessions :
    TaskClosed(s)
    => /\ task'[s] = task[s]
       /\ chan'[s] = chan[s]
       /\ published'[s] = published[s]
       /\ sinkCloses'[s] = sinkCloses[s]

\* the task and the channel of a session exist from MqttSessionState::new on, and a
\* session is constructed once
C18_OnePairPerSession ==
  \A s \in Sessions :
    /\ status[s] # "absent" => status'[s] # "absent"
    /\ status[s] = "absent" => task[s].pc = "Running" /\ chan[s] = <<>> /\ task'[s] = task[s]

\* C18: the Closed states of the publisher task are terminal and entered once; only
\* MqttSessionState::new yields a new task and channel.
C18_ClosedStatesTerminal == [][C18_ClosedIsTerminal /\ C18_OnePairPerSession]_vars

\* the task has terminated with a message still in the channel, and the session was
\* dropped afterwards
C18_Witness ==
  /\ TaskClosed("A")
  /\ Len(chan["A"]) = 1
  /\ status["A"] = "dropped"

\* ============================================================ registry lifetime
\* one client, two concurrent handler invocations (both may subscribe, one may
\* publish), samples from outside, its publisher task, and its destruction
NextLifetime ==
  \/ \E c \in Callers, t \in {TopicHome, TopicSecret} : MapCall(c, "A", t)
  \/ \E c \in Callers : MapAlreadySubscribed(c)
  \/ \E c \in Callers : MapDeclare(c)
  \/ \E c \in Callers : MapDeclareOk(c)
  \/ \E c \in Callers : MapDeclareErr(c)
  \/ RoutePut(2, "A", TopicHome)
  \/ \E z \in caller[2].todo : PutCallbackSent(2, z)
  \/ \E z \in caller[2].todo : PutCallbackBlocks(2, z)
  \/ RouteReturn(2)
  \/ \E z \in zsubs, ke \in RemoteKeys : RemoteSampleSent(z, ke)
  \/ \E z \in zsubs, ke \in RemoteKeys : RemoteSampleErr(z, ke)
  \/ \E s \in Sessions : TaskRecv(s)
  \/ \E s \in Sessions : TaskPublishOk(s)
  \/ \E s \in Sessions : DropSession(s)

SpecLifetime == InitIsolation /\ [][NextLifetime]_vars

\* the declared subscriber a registry entry stands for
EntrySubscriber(s, t) == { z \in zsubs : z.sess = s /\ z.topic = t /\ z.id = subs[s][t] }

\* while the session stays alive a step keeps every entry with its subscriber; the
\* step that destroys the session releases all entries and subscribers together
C19_EntryKeptUntilDrop ==
  \A s \in Sessions : \A t \in Topics :
    (status[s] = "alive" /\ subs[s][t] # 0)
    => IF status'[s] = "alive"
         THEN subs'[s][t] = subs[s][t] /\ EntrySubscriber(s, t) \subseteq zsubs'
         ELSE /\ \A u \in Topics : subs'[s][u] = 0
              /\ \A z \in zsubs' : z.sess # s

\* every entry stands for one declared subscriber, with the visibility chosen from
\* the policy when it was registered
C19_EntryHasItsSubscriber ==
  \A s \in Sessions : \A t \in Topics :
    subs[s][t] # 0
    => /\ Cardinality(EntrySubscriber(s, t)) = 1
       /\ \A z \in EntrySubscriber(s, t) : z.origin = sub_origin(t)

\* C19: while a MqttSessionState is alive its registry only grows: an inserted entry
\* is never removed or replaced, its subscriber and visibility stay the same, and all
\* entries are released together when the state is dropped.
C19_RegistryOnlyGrows == []C19_EntryHasItsSubscriber /\ [][C19_EntryKeptUntilDrop]_vars

\* both topics are registered, a repeated subscribe was ignored, a publish returned
\* and a message was delivered, with the entries still in place
C19_Witness ==
  /\ status["A"] = "alive"
  /\ subs["A"][TopicHome] # 0 /\ subs["A"][TopicSecret] # 0
  /\ caller[1].op = "map" /\ caller[1].pc = "idle" /\ caller[1].ret = "Ok"
  /\ caller[2].op = "route" /\ caller[2].ret = "Ok"
  /\ Len(published["A"]) >= 1

BlockedOn(s) == { b \in blocked : b.sess = s }

\* once the publisher task of s has terminated no callback starts waiting on the
\* channel of s and no enqueue completes; a callback that stops waiting has returned
\* Err and its event is dropped
C20_NoEnqueueAfterTermination ==
  \A s \in Sessions :
    TaskClosed(s)
    => /\ BlockedOn(s)' \subseteq BlockedOn(s)
       /\ enqOrder'[s] = enqOrder[s] /\ chan'[s] = chan[s]
       /\ \A b \in BlockedOn(s) \ BlockedOn(s)' :
            [sess |-> s, payload |-> b.msg.payload] \in dropped'

\* every callback waiting on the channel of a terminated task is released
C20_BlockedAreReleased ==
  \A s \in Sessions : TaskClosed(s) ~> (BlockedOn(s) = {})

\* C20: once the publisher task has terminated (the receiver is dropped), every
\* send_blocking waiting on the full channel, and every later one, returns Err
\* instead of blocking; the callback returns and the event is dropped.
C20_TerminatedTaskFreesCallbacks ==
  /\ [][C20_NoEnqueueAfterTermination]_vars
  /\ C20_BlockedAreReleased

\* the task has terminated while a callback was waiting on the full channel
C20_Witness ==
  /\ TaskClosed("A")
  /\ BlockedOn("A") # {}
  /\ Len(chan["A"]) = 1

====
